---- MODULE Spec2Model ----
(***************************************************************************)
(* A model of src/main.py: a wipe-and-reload synchronizer that copies the  *)
(* rows of named tables from a primary (source) database to a secondary    *)
(* (destination) database and records each table's last sync time in the   *)
(* destination table sync_tracking.                                        *)
(*                                                                         *)
(* The databases are modelled by their schema (the set of table names that *)
(* exist) and the committed rows of each table.  The two SQLAlchemy        *)
(* MetaData objects are modelled as the sets of table names they cache.    *)
(* Every statement that talks to a database is one step, and may fail.     *)
(* A statement that fails takes the except and finally clauses of its      *)
(* function in the same step.  Of the statements of those clauses, a close *)
(* that has a transaction to end may fail as well, and then an exception   *)
(* leaves the function; a rollback is taken to succeed.                    *)
(* A second process that runs the synchronizer on the same databases is    *)
(* part of the specification SpecConc only.                                *)
(***************************************************************************)
EXTENDS Integers, Sequences, FiniteSets, TLC

\* ---- bounds of the model ------------------------------------------------
MaxRows == 1            \* most rows a source table holds
MaxClock == 3           \* most timestamps datetime.utcnow() hands out

\* ---- the universe -------------------------------------------------------
Names == {"A", "B"}     \* data table names a caller may pass
RowVals == {"a", "b"}   \* row values (a row is copied as one opaque value)
TRACK == "sync_tracking"
NameLists == { <<"A">>, <<"B">>, <<"A", "B">>, <<"B", "A">> }
NoRows == [t \in Names |-> << >>]

VARIABLES
  \* the two databases
  srcSchema,      \* tables that exist in the source
  srcRows,        \* source rows, per table
  dstSchema,      \* tables that exist in the destination
  dstRows,        \* committed destination rows, per data table
  tracking,       \* committed records of sync_tracking, in id order
  \* the running Python process
  primaryMeta,    \* primary_metadata.tables (names)
  secondaryMeta,  \* secondary_metadata.tables (names)
  clock,          \* the last value datetime.utcnow() returned
  pc,             \* the statement about to run
  stack,          \* return labels of the calls in progress
  open,           \* sessions the operation running or last run opened and
                  \* has not closed
  \* locals of sync_table_changes
  table_names, idx, primary_data, ins,
  txRows,         \* rows the batch's session has pending, per table
  deleted,        \* rows the batch's DELETE took, less those another
                  \* session's commit removed since, per table
  \* locals of update_sync_tracking
  tname, now, existing_entry, trkTx,
  \* locals of __main__
  tables_to_sync, errors,
  \* outcomes
  lastOp,         \* the top-level operation running or last run
  syncRes,        \* "none", "running", "ok" (committed), "failed" (rolled back)
  firstRes,       \* what is_first_run() returned: "none", "true", "false"
  mainRes,        \* "none", "running", "done", "crashed"
  raised,         \* the last top-level operation ended with an escaping exception
  \* history of the current sync_table_changes call (observers only)
  dst0,           \* dstRows when the call started
  trk0,           \* tracking when the call (or run) started
  schema0,        \* dstSchema when the top-level operation started
  readRows,       \* rows read from the source in this call, per table
  stamp,          \* timestamp committed for each table's tracking in this call
  commits,        \* destination commits made during this call
  cause,          \* the failure that reached the batch's except clause:
                  \* "missing" (no such table in the source), "mirror" (DDL),
                  \* "load", "read", "delete", "insert", "track", "commit"
  trackFailed,    \* tables whose update_sync_tracking failed in this call
  selFailed,      \* the select of the last is_first_run() failed
  sameList,       \* <<T>> if the last call was a committed direct
                  \* sync_table_changes([T]) and the source was not written since
  prevSame,       \* sameList when the current call started
  synced,         \* some batch has committed its rows to the destination
  \* a second process running sync_table_changes([table_name2])
  pc2, table_name2, primary_data2, ins2, txRows2, deleted2,
  now2, existing_entry2, trkTx2,
  syncRes2        \* "none", "running", "ok", "failed"

dbVars == <<srcSchema, srcRows, dstSchema, dstRows, tracking>>
metaVars == <<primaryMeta, secondaryMeta>>
syncLocals == <<table_names, idx, primary_data, ins, txRows, deleted>>
trackLocals == <<tname, now, existing_entry, trkTx>>
mainLocals == <<tables_to_sync, errors>>
resVars == <<lastOp, syncRes, firstRes, mainRes, raised>>
histVars == <<dst0, trk0, schema0, readRows, stamp, commits, cause,
              trackFailed, selFailed, sameList, prevSame>>
procVars1 == <<pc, stack, open, syncLocals, trackLocals, mainLocals, resVars,
               histVars>>
procVars2 == <<pc2, table_name2, primary_data2, ins2, txRows2, deleted2, now2,
               existing_entry2, trkTx2, syncRes2>>
vars == <<dbVars, metaVars, clock, pc, stack, open, syncLocals, trackLocals,
          mainLocals, resVars, histVars, synced, procVars2>>

\* ---- helpers ------------------------------------------------------------
Range(s) == {s[i] : i \in DOMAIN s}

\* the multiset of the elements of a sequence
BagOf(s) == [v \in Range(s) |-> Cardinality({i \in DOMAIN s : s[i] = v})]

\* the rows of a table with one more row, in canonical order
SortedInsert(s, v) ==
  LET k == Cardinality({i \in DOMAIN s : s[i] = "a" \/ v = "b"}) IN
    [j \in 1..(Len(s) + 1) |->
       IF j <= k THEN s[j] ELSE IF j = k + 1 THEN v ELSE s[j - 1]]

RemoveAt(s, i) == [j \in 1..(Len(s) - 1) |-> IF j < i THEN s[j] ELSE s[j + 1]]

\* records of sync_tracking whose table_name is n
RecordsOf(trk, n) == {i \in DOMAIN trk : trk[i].table_name = n}

\* Table(name, metadata, autoload_with=engine): the cached Table when the
\* metadata already holds the name, else reflection from the database, which
\* raises NoSuchTableError when the database has no such table.
TableLoad(meta, schema, name) ==
  IF name \in meta \/ name \in schema
    THEN [ok |-> TRUE, meta |-> meta \cup {name}]
    ELSE [ok |-> FALSE, meta |-> meta]

\* MetaData.create_all(engine): CREATE TABLE for every table of the metadata
\* that the database lacks (checkfirst).
create_all(meta, schema) == schema \cup meta

\* create_table_if_not_exists(table_name), lines 27-33.  The guard looks at
\* secondary_metadata, not at the destination; the DDL is create_all of the
\* whole primary_metadata, run on the engine, outside any session.
create_table_if_not_exists(T, ddlFails) ==
  IF T \in secondaryMeta
    THEN [raised |-> FALSE, why |-> "none", pm |-> primaryMeta, ds |-> dstSchema]
    ELSE LET p == TableLoad(primaryMeta, srcSchema, T) IN
         IF ~p.ok
           THEN [raised |-> TRUE, why |-> "missing", pm |-> primaryMeta,
                 ds |-> dstSchema]
           ELSE IF ddlFails /\ (p.meta \ dstSchema) # {}
             THEN [raised |-> TRUE, why |-> "mirror", pm |-> p.meta,
                   ds |-> dstSchema]
             ELSE [raised |-> FALSE, why |-> "none", pm |-> p.meta,
                   ds |-> create_all(p.meta, dstSchema)]

\* a creation that does not look at secondary_metadata first
create_sync_tracking_table_unguarded(ddlFails) ==
  IF ddlFails \/ TRACK \in dstSchema
    THEN [raised |-> TRUE, sm |-> secondaryMeta \cup {TRACK}, ds |-> dstSchema]
    ELSE [raised |-> FALSE, sm |-> secondaryMeta \cup {TRACK},
          ds |-> dstSchema \cup {TRACK}]

\* create_sync_tracking_table(), lines 35-48.  Table(...) registers the name
\* in secondary_metadata before tracking_table.create() runs its DDL, and
\* create() does not check whether the table exists.
create_sync_tracking_table(ddlFails) ==
  IF TRACK \in secondaryMeta
    THEN [raised |-> FALSE, sm |-> secondaryMeta, ds |-> dstSchema]
    ELSE IF ddlFails \/ TRACK \in dstSchema
      THEN [raised |-> TRUE, sm |-> secondaryMeta \cup {TRACK}, ds |-> dstSchema]
      ELSE [raised |-> FALSE, sm |-> secondaryMeta \cup {TRACK},
            ds |-> dstSchema \cup {TRACK}]

\* a delete that removes nothing
table_delete_nothing(rows) == rows

\* secondary_table.delete(), line 104
table_delete(rows) == << >>

\* an insert that loses the row
table_insert_drops(rows, row) == rows

\* secondary_table.insert().values(**row._asdict()), line 107
table_insert(rows, row) == Append(rows, row)

\* s without one occurrence of each element of r
RECURSIVE BagMinus(_, _)
BagMinus(s, r) ==
  IF r = << >> THEN s
  ELSE LET hit == {i \in DOMAIN s : s[i] = Head(r)} IN
       IF hit = {} THEN BagMinus(s, Tail(r))
       ELSE BagMinus(RemoveAt(s, CHOOSE i \in hit : \A j \in hit : i <= j),
                     Tail(r))

\* what is left for a session's DELETE to remove once another session has
\* committed: the rows that session removed are gone already.  Of two
\* sessions in progress the one whose DELETE ran later took every row the
\* other took, so the difference of the values is the difference of the rows.
delete_skips(removed, gone) == BagMinus(removed, gone)

\* the commit of a session that ran DELETE and then holds the rows pending.
\* removed is what its DELETE took and no other session has removed since
\* (delete_skips): those rows go, the pending rows are added, and what
\* other sessions committed since the DELETE stays, equal to a removed row
\* or not (the default isolation of the engine of line 12, read committed)
table_commit(committed, removed, pending) ==
  BagMinus(committed, removed) \o pending

\* secondary_session.commit(), line 111: the pending rows of the tables the
\* batch touched become committed
session_commit(committed, removed, pending, touched) ==
  [t \in Names |->
     IF t \in touched THEN table_commit(committed[t], removed[t], pending[t])
     ELSE committed[t]]

\* a rollback that keeps the pending rows
session_rollback_keeps(committed, pending) == pending

\* secondary_session.rollback(), line 114: the pending rows are discarded
session_rollback(committed, pending) == committed

\* an upsert that always inserts
tracking_upsert_appends(trk, n, ts, exists) ==
  Append(trk, [table_name |-> n, last_synced_at |-> ts])

\* lines 73-82: update the records of that name, or insert one
tracking_upsert(trk, n, ts, exists) ==
  IF exists
    THEN [i \in DOMAIN trk |->
            IF trk[i].table_name = n
              THEN [table_name |-> n, last_synced_at |-> ts]
              ELSE trk[i]]
    ELSE Append(trk, [table_name |-> n, last_synced_at |-> ts])

\* a commit that adds the pending record whatever the select had found
tracking_commit_appends(committed, pending, n, exists) ==
  Append(committed, pending[Len(pending)])

\* secondary_session.commit(), line 84: the pending upsert of name n
\* reaches the committed records, next to what other sessions committed
\* since the select of line 69
tracking_commit(committed, pending, n, exists) ==
  IF exists
    THEN [i \in DOMAIN committed |->
            IF i <= Len(pending) /\ pending[i].table_name = n
              THEN pending[i] ELSE committed[i]]
    ELSE Append(committed, pending[Len(pending)])

\* session.close(), lines 61, 90, 117 and 118: the session s is released,
\* unless the close raises.  A close ends the transaction the session has
\* in progress, on the database, and can fail as any other statement; the
\* callers say whether it can (raises): a session whose last statement was
\* a commit or a rollback has no transaction left to end.
session_close(sessions, s, raises) ==
  [open |-> IF raises THEN sessions ELSE sessions \ {s}, raised |-> raises]

\* line 56: len(result) == 0
is_empty_result(result) == Len(result) = 0

\* a bootstrap that synchronizes whatever is_first_run() returned
main_always_syncs(first) == TRUE

\* line 143: the synchronizer runs only when is_first_run() returned True
main_runs_sync(first) == first = "true"

\* where an exception leaving a callee lands, by the callee's return label:
\* inside sync_table_changes' try it reaches the except clause of line 113;
\* in __main__ and at top level nothing catches it.
Handler(ret) == IF ret = "s_next" THEN "s_except" ELSE "done"

\* which selects on sync_tracking can fail: all of them, and certainly the
\* ones made while the destination has no such table
TrackSelectFails == IF TRACK \in dstSchema THEN BOOLEAN ELSE {TRUE}

\* ---- initial state: a fresh process, an empty destination ---------------
Init ==
  /\ srcSchema \in {{"A"}, {"A", "B"}}
  /\ srcRows = NoRows
  /\ dstSchema = {}
  /\ dstRows = NoRows
  /\ tracking = << >>
  /\ primaryMeta = {}
  /\ secondaryMeta = {}
  /\ clock = 0
  /\ pc = "idle"
  /\ stack = << >>
  /\ open = {}
  /\ table_names = << >>
  /\ idx = 1
  /\ primary_data = << >>
  /\ ins = 1
  /\ txRows = NoRows
  /\ deleted = NoRows
  /\ tname = "A"
  /\ now = 0
  /\ existing_entry = FALSE
  /\ trkTx = << >>
  /\ tables_to_sync = << >>
  /\ errors = {}
  /\ lastOp = "none"
  /\ syncRes = "none"
  /\ firstRes = "none"
  /\ mainRes = "none"
  /\ raised = FALSE
  /\ dst0 = NoRows
  /\ trk0 = << >>
  /\ schema0 = {}
  /\ readRows = NoRows
  /\ stamp = [t \in Names |-> 0]
  /\ commits = 0
  /\ cause = "none"
  /\ trackFailed = {}
  /\ selFailed = FALSE
  /\ sameList = << >>
  /\ prevSame = << >>
  /\ synced = FALSE
  /\ pc2 = "idle"
  /\ table_name2 = "A"
  /\ primary_data2 = << >>
  /\ ins2 = 1
  /\ txRows2 = << >>
  /\ deleted2 = << >>
  /\ now2 = 0
  /\ existing_entry2 = FALSE
  /\ trkTx2 = << >>
  /\ syncRes2 = "none"

\* ---- the environment: writers of the source, process restarts ----------
\* Source rows are written between calls.  A table's rows are kept in one
\* canonical order (the order of a result set is not part of any contract).
SourceInsert(t, v) ==
  /\ pc = "idle"
  /\ t \in srcSchema
  /\ Len(srcRows[t]) < MaxRows
  /\ srcRows' = [srcRows EXCEPT ![t] = SortedInsert(@, v)]
  /\ sameList' = << >>
  /\ UNCHANGED <<srcSchema, dstSchema, dstRows, tracking, metaVars, clock, pc,
                 stack, open, syncLocals, trackLocals, mainLocals, resVars,
                 dst0, trk0, schema0, readRows, stamp, commits, cause,
                 trackFailed, selFailed, prevSame>>
  /\ UNCHANGED <<synced, procVars2>>

SourceDelete(t, i) ==
  /\ pc = "idle"
  /\ t \in srcSchema
  /\ i \in DOMAIN srcRows[t]
  /\ srcRows' = [srcRows EXCEPT ![t] = RemoveAt(@, i)]
  /\ sameList' = << >>
  /\ UNCHANGED <<srcSchema, dstSchema, dstRows, tracking, metaVars, clock, pc,
                 stack, open, syncLocals, trackLocals, mainLocals, resVars,
                 dst0, trk0, schema0, readRows, stamp, commits, cause,
                 trackFailed, selFailed, prevSame>>
  /\ UNCHANGED <<synced, procVars2>>

\* a new Python process: lines 24-25 build empty MetaData objects
Restart ==
  /\ pc = "idle"
  /\ primaryMeta # {} \/ secondaryMeta # {}
  /\ primaryMeta' = {}
  /\ secondaryMeta' = {}
  /\ UNCHANGED <<dbVars, clock, pc, stack, open, syncLocals, trackLocals,
                 mainLocals, resVars, histVars>>
  /\ UNCHANGED <<synced, procVars2>>

\* ---- sync_table_changes(table_names), lines 92-118 ----------------------
\* entering the function (lines 94-95 open one session per side): the call's
\* history starts here
EnterSync(names, ret) ==
  /\ pc' = "s_mirror"
  /\ stack' = <<ret>> \o stack
  /\ open' = open \cup {"primary", "secondary"}
  /\ table_names' = names
  /\ idx' = 1
  /\ txRows' = dstRows
  /\ deleted' = NoRows
  /\ syncRes' = "running"
  /\ dst0' = dstRows
  /\ trk0' = tracking
  /\ readRows' = NoRows
  /\ stamp' = [t \in Names |-> 0]
  /\ commits' = 0
  /\ cause' = "none"
  /\ trackFailed' = {}
  /\ prevSame' = sameList
  /\ sameList' = << >>

\* a direct call, as the change hooks of lines 121-131 make
CallSync(names) ==
  /\ pc = "idle"
  /\ clock + Len(names) <= MaxClock
  /\ EnterSync(names, "done")
  /\ lastOp' = "sync"
  /\ raised' = FALSE
  /\ UNCHANGED <<dbVars, metaVars, clock, primary_data, ins, trackLocals,
                 mainLocals, firstRes, mainRes, schema0, selFailed>>
  /\ UNCHANGED <<synced, procVars2>>

\* primary_session has a transaction once line 103 has run in the call:
\* a session begins one with its first statement
primary_in_transaction == idx > 1 \/ pc # "s_mirror"

\* which statements can fail: one that has something to send
MayFail(sends) == IF sends THEN BOOLEAN ELSE {FALSE}

\* lines 116-118, the finally clause: primary_session.close(), which ends
\* the transaction of the reads of line 103, then secondary_session.close(),
\* which is skipped when the first close raises and comes after the commit
\* of line 111 or the rollback of line 114.  The function returns to the
\* label on top of st, unless the first close raises: nothing in this file
\* catches that.
SyncReturn(st) ==
  /\ idx' = 1
  /\ primary_data' = << >>
  /\ ins' = 1
  /\ txRows' = NoRows
  /\ deleted' = NoRows
  /\ \E primaryFails \in MayFail(primary_in_transaction) :
       LET p == session_close(open, "primary", primaryFails)
           s == IF p.raised
                  THEN p
                  ELSE session_close(p.open, "secondary", FALSE) IN
         /\ open' = s.open
         /\ pc' = IF s.raised THEN Handler(Head(st)) ELSE Head(st)
         /\ stack' = IF s.raised THEN << >> ELSE Tail(st)
         /\ raised' = s.raised
         /\ mainRes' = IF s.raised /\ lastOp = "main"
                         THEN "crashed" ELSE mainRes

\* lines 113-118: a statement of the try block raised; the except clause
\* rolls the destination session back, then the finally clause runs
Abort(why, st) ==
  /\ dstRows' = session_rollback(dstRows, txRows)
  /\ syncRes' = "failed"
  /\ cause' = why
  /\ SyncReturn(st)

\* a statement of the try block succeeded and control moves on to label l
Goes(l) ==
  /\ pc' = l
  /\ UNCHANGED <<dstRows, syncRes, cause, stack, open, raised, mainRes>>

\* lines 99-101: mirror the schema, then load both Table objects
SMirror ==
  /\ pc = "s_mirror"
  /\ \E ddlFails \in BOOLEAN :
       LET r == create_table_if_not_exists(table_names[idx], ddlFails)
           p == TableLoad(r.pm, srcSchema, table_names[idx])
           s == TableLoad(secondaryMeta, r.ds, table_names[idx]) IN
         /\ dstSchema' = r.ds
         /\ primaryMeta' = IF r.raised THEN r.pm ELSE p.meta
         /\ secondaryMeta' = IF ~r.raised /\ p.ok THEN s.meta ELSE secondaryMeta
         /\ IF r.raised THEN Abort(r.why, stack)
            ELSE IF ~(p.ok /\ s.ok) THEN Abort("load", stack)
            ELSE /\ Goes("s_read")
                 /\ UNCHANGED <<idx, primary_data, ins, txRows, deleted>>
  /\ UNCHANGED <<srcSchema, srcRows, tracking, clock, table_names, trackLocals,
                 mainLocals, lastOp, firstRes, dst0, trk0,
                 schema0, readRows, stamp, commits, trackFailed, selFailed,
                 sameList, prevSame>>
  /\ UNCHANGED <<synced, procVars2>>

\* line 103
SRead ==
  /\ pc = "s_read"
  /\ \E fails \in BOOLEAN :
       IF fails
         THEN /\ Abort("read", stack)
              /\ UNCHANGED readRows
         ELSE /\ primary_data' = srcRows[table_names[idx]]
              /\ readRows' = [readRows EXCEPT ![table_names[idx]] =
                                srcRows[table_names[idx]]]
              /\ Goes("s_delete")
              /\ UNCHANGED <<idx, ins, txRows, deleted>>
  /\ UNCHANGED <<srcSchema, srcRows, dstSchema, tracking, metaVars, clock,
                 table_names, trackLocals, mainLocals, lastOp, firstRes,
                 dst0, trk0, schema0, stamp, commits,
                 trackFailed, selFailed, sameList, prevSame>>
  /\ UNCHANGED <<synced, procVars2>>

\* a DELETE issued on the source table
SDeleteOnSource ==
  /\ pc = "s_delete"
  /\ srcRows' = [srcRows EXCEPT ![table_names[idx]] = table_delete(@)]
  /\ deleted' = [deleted EXCEPT ![table_names[idx]] = dstRows[table_names[idx]]]
  /\ ins' = 1
  /\ Goes("s_insert")
  /\ UNCHANGED <<srcSchema, dstSchema, tracking, metaVars, clock, table_names,
                 idx, primary_data, txRows, trackLocals, mainLocals, lastOp,
                 firstRes, dst0, trk0, schema0, readRows,
                 stamp, commits, trackFailed, selFailed, sameList, prevSame,
                 synced, procVars2>>

\* line 104
SDelete ==
  /\ pc = "s_delete"
  /\ \E fails \in BOOLEAN :
       IF fails
         THEN Abort("delete", stack)
         ELSE /\ txRows' = [txRows EXCEPT ![table_names[idx]] = table_delete(@)]
              /\ deleted' = [deleted EXCEPT ![table_names[idx]] =
                               dstRows[table_names[idx]]]
              /\ ins' = 1
              /\ Goes("s_insert")
              /\ UNCHANGED <<idx, primary_data>>
  /\ UNCHANGED <<srcSchema, srcRows, dstSchema, tracking, metaVars, clock,
                 table_names, trackLocals, mainLocals, lastOp, firstRes,
                 dst0, trk0, schema0, readRows, stamp, commits,
                 trackFailed, selFailed, sameList, prevSame>>
  /\ UNCHANGED <<synced, procVars2>>

\* lines 106-107, one row
SInsert ==
  /\ pc = "s_insert"
  /\ ins <= Len(primary_data)
  /\ \E fails \in BOOLEAN :
       IF fails
         THEN Abort("insert", stack)
         ELSE /\ txRows' = [txRows EXCEPT ![table_names[idx]] =
                              table_insert(@, primary_data[ins])]
              /\ ins' = ins + 1
              /\ Goes("s_insert")
              /\ UNCHANGED <<idx, primary_data, deleted>>
  /\ UNCHANGED <<srcSchema, srcRows, dstSchema, tracking, metaVars, clock,
                 table_names, trackLocals, mainLocals, lastOp, firstRes,
                 dst0, trk0, schema0, readRows, stamp, commits,
                 trackFailed, selFailed, sameList, prevSame>>
  /\ UNCHANGED <<synced, procVars2>>

\* a call of update_sync_tracking that does not wait for the inserts
SCallTrackEarly ==
  /\ pc = "s_insert"
  /\ pc' = "t_load"
  /\ stack' = <<"s_next">> \o stack
  /\ tname' = table_names[idx]
  /\ UNCHANGED <<dbVars, metaVars, clock, open, syncLocals, now,
                 existing_entry, trkTx, mainLocals, resVars, histVars, synced,
                 procVars2>>

\* line 109: the call of update_sync_tracking(table_name)
SCallTrack ==
  /\ pc = "s_insert"
  /\ ins > Len(primary_data)
  /\ pc' = "t_load"
  /\ stack' = <<"s_next">> \o stack
  /\ tname' = table_names[idx]
  /\ UNCHANGED <<dbVars, metaVars, clock, open, syncLocals, now,
                 existing_entry, trkTx, mainLocals, resVars, histVars>>
  /\ UNCHANGED <<synced, procVars2>>

\* line 98: the next table, or line 111 after the last
SNext ==
  /\ pc = "s_next"
  /\ idx' = idx + 1
  /\ pc' = IF idx + 1 > Len(table_names) THEN "s_commit" ELSE "s_mirror"
  /\ UNCHANGED <<dbVars, metaVars, clock, stack, open, table_names,
                 primary_data, ins, txRows, deleted, trackLocals, mainLocals,
                 resVars,
                 histVars>>
  /\ UNCHANGED <<synced, procVars2>>

\* lines 111-112, then the finally clause
SCommit ==
  /\ pc = "s_commit"
  /\ \E fails \in BOOLEAN :
       IF fails
         THEN /\ Abort("commit", stack)
              /\ UNCHANGED <<commits, synced, deleted2>>
         ELSE /\ dstRows' = session_commit(dstRows, deleted, txRows,
                                            Range(table_names))
              /\ deleted2' = IF table_name2 \in Range(table_names)
                               THEN delete_skips(deleted2, deleted[table_name2])
                               ELSE deleted2
              /\ synced' = TRUE
              /\ commits' = commits + 1
              /\ syncRes' = "ok"
              /\ cause' = cause
              /\ SyncReturn(stack)
  /\ UNCHANGED <<srcSchema, srcRows, dstSchema, tracking, metaVars, clock,
                 table_names, trackLocals, mainLocals, lastOp, firstRes,
                 dst0, trk0, schema0, readRows, stamp, trackFailed, selFailed,
                 sameList, prevSame>>
  /\ UNCHANGED <<pc2, table_name2, primary_data2, ins2, txRows2, now2,
                 existing_entry2, trkTx2, syncRes2>>

\* ---- update_sync_tracking(table_name), lines 63-90 ---------------------
\* a direct call
CallRecord(T) ==
  /\ pc = "idle"
  /\ clock < MaxClock
  /\ pc' = "t_load"
  /\ stack' = <<"done">>
  /\ tname' = T
  /\ lastOp' = "record"
  /\ raised' = FALSE
  /\ trk0' = tracking
  /\ trackFailed' = {}
  /\ stamp' = [t \in Names |-> 0]
  /\ UNCHANGED <<dbVars, metaVars, clock, open, syncLocals, now,
                 existing_entry, trkTx, mainLocals, syncRes, firstRes, mainRes,
                 dst0, schema0, readRows, commits, cause, selFailed, sameList,
                 prevSame>>
  /\ UNCHANGED <<synced, procVars2>>

\* lines 89-90, the finally clause: the tracking session is closed, after
\* the commit of line 84 or the rollback of line 88, and the function
\* returns.  failed: a statement of the try block had raised.
TrackReturn(failed) ==
  /\ pc' = Head(stack)
  /\ stack' = Tail(stack)
  /\ open' = session_close(open, "tracking", FALSE).open
  /\ trackFailed' = IF failed THEN trackFailed \cup {tname} ELSE trackFailed
  /\ now' = 0
  /\ existing_entry' = FALSE
  /\ trkTx' = << >>
  /\ UNCHANGED <<dstRows, syncRes, cause, raised, mainRes, idx, primary_data,
                 ins, txRows, deleted>>

\* lines 86-90: a statement of the try block raised; the except clause rolls
\* the tracking session back and swallows the exception
TrackFails ==
  /\ TrackReturn(TRUE)
  /\ UNCHANGED <<tracking, commits, stamp>>

\* a statement of the try block succeeded and control moves on to label l
TrackGoes(l) ==
  /\ pc' = l
  /\ UNCHANGED <<tracking, commits, stamp, trackFailed, stack, open, dstRows,
                 syncRes, cause, raised, mainRes, idx, primary_data, ins,
                 txRows, deleted>>

\* lines 65-68: the Table load is outside the try block, so
\* NoSuchTableError leaves the function; inside sync_table_changes it
\* reaches the clause of line 113.  Then the session is opened and the
\* clock is read, before any statement is sent.
TLoad ==
  /\ pc = "t_load"
  /\ LET s == TableLoad(secondaryMeta, dstSchema, TRACK) IN
       IF s.ok
         THEN /\ secondaryMeta' = s.meta
              /\ open' = open \cup {"tracking"}
              /\ clock' = clock + 1
              /\ now' = clock + 1
              /\ pc' = "t_select"
              /\ UNCHANGED <<stack, raised, mainRes, cause, trackFailed,
                             dstRows, syncRes, idx, primary_data, ins, txRows,
                             deleted>>
         ELSE /\ trackFailed' = trackFailed \cup {tname}
              /\ UNCHANGED <<secondaryMeta, clock, now>>
              /\ IF Handler(Head(stack)) = "s_except"
                   THEN Abort("track", Tail(stack))
                   ELSE /\ pc' = "done"
                        /\ stack' = << >>
                        /\ raised' = TRUE
                        /\ UNCHANGED <<mainRes, cause, dstRows, syncRes, open,
                                       idx, primary_data, ins, txRows,
                                       deleted>>
  /\ UNCHANGED <<srcSchema, srcRows, dstSchema, tracking, primaryMeta,
                 table_names, tname, existing_entry, trkTx, mainLocals, lastOp,
                 firstRes, dst0, trk0, schema0, readRows, stamp, commits,
                 selFailed, sameList, prevSame>>
  /\ UNCHANGED <<synced, procVars2>>

\* lines 69-71
TSelect ==
  /\ pc = "t_select"
  /\ \E fails \in TrackSelectFails :
       IF fails
         THEN TrackFails
         ELSE /\ existing_entry' = (RecordsOf(tracking, tname) # {})
              /\ TrackGoes("t_write")
              /\ UNCHANGED <<now, trkTx>>
  /\ UNCHANGED <<srcSchema, srcRows, dstSchema, metaVars, clock, table_names,
                 tname, mainLocals, lastOp, firstRes, dst0, trk0, schema0,
                 readRows, selFailed, sameList, prevSame>>
  /\ UNCHANGED <<synced, procVars2>>

\* lines 73-82: the statement runs on the records committed by now
TWrite ==
  /\ pc = "t_write"
  /\ \E fails \in BOOLEAN :
       IF fails
         THEN TrackFails
         ELSE /\ trkTx' = tracking_upsert(tracking, tname, now, existing_entry)
              /\ TrackGoes("t_commit")
              /\ UNCHANGED <<now, existing_entry>>
  /\ UNCHANGED <<srcSchema, srcRows, dstSchema, metaVars, clock, table_names,
                 tname, mainLocals, lastOp, firstRes, dst0, trk0, schema0,
                 readRows, selFailed, sameList, prevSame>>
  /\ UNCHANGED <<synced, procVars2>>

\* lines 84-85, then the finally clause
TCommit ==
  /\ pc = "t_commit"
  /\ \E fails \in BOOLEAN :
       IF fails
         THEN TrackFails
         ELSE /\ tracking' = tracking_commit(tracking, trkTx, tname,
                                             existing_entry)
              /\ commits' = commits + 1
              /\ stamp' = [stamp EXCEPT ![tname] = now]
              /\ TrackReturn(FALSE)
  /\ UNCHANGED <<srcSchema, srcRows, dstSchema, metaVars, clock, table_names,
                 tname, mainLocals, lastOp, firstRes, dst0, trk0, schema0,
                 readRows, selFailed, sameList, prevSame>>
  /\ UNCHANGED <<synced, procVars2>>

\* ---- is_first_run(), lines 50-61 ----------------------------------------
\* a direct call
CallIsFirstRun ==
  /\ pc = "idle"
  /\ pc' = "f_load"
  /\ stack' = <<"done">>
  /\ lastOp' = "first"
  /\ raised' = FALSE
  /\ firstRes' = "none"
  /\ selFailed' = FALSE
  /\ UNCHANGED <<dbVars, metaVars, clock, open, syncLocals, trackLocals,
                 mainLocals, syncRes, mainRes, dst0, trk0, schema0, readRows,
                 stamp, commits, cause, trackFailed, sameList, prevSame>>
  /\ UNCHANGED <<synced, procVars2>>

\* lines 52-53: outside the try block, so NoSuchTableError leaves the
\* function, and nothing in this file catches it
FLoad ==
  /\ pc = "f_load"
  /\ LET s == TableLoad(secondaryMeta, dstSchema, TRACK) IN
       IF s.ok
         THEN /\ secondaryMeta' = s.meta
              /\ open' = open \cup {"first"}
              /\ pc' = "f_select"
              /\ UNCHANGED <<stack, raised, mainRes>>
         ELSE /\ pc' = "done"
              /\ stack' = << >>
              /\ raised' = TRUE
              /\ mainRes' = IF lastOp = "main" THEN "crashed" ELSE mainRes
              /\ UNCHANGED <<secondaryMeta, open>>
  /\ UNCHANGED <<dbVars, primaryMeta, clock, syncLocals, trackLocals,
                 mainLocals, lastOp, syncRes, firstRes, histVars>>
  /\ UNCHANGED <<synced, procVars2>>

\* lines 54-61: the select, the result, and the finally clause, whose close
\* ends the transaction of the select and can raise in place of the return
FSelect ==
  /\ pc = "f_select"
  /\ \E fails \in TrackSelectFails, closeFails \in BOOLEAN :
       LET c == session_close(open, "first", closeFails) IN
         /\ selFailed' = fails
         /\ open' = c.open
         /\ IF c.raised
              THEN /\ firstRes' = "none"
                   /\ pc' = "done"
                   /\ stack' = << >>
                   /\ raised' = TRUE
                   /\ mainRes' = IF lastOp = "main" THEN "crashed" ELSE mainRes
              ELSE /\ firstRes' = IF fails \/ is_empty_result(tracking)
                                    THEN "true" ELSE "false"
                   /\ pc' = Head(stack)
                   /\ stack' = Tail(stack)
                   /\ UNCHANGED <<raised, mainRes>>
  /\ UNCHANGED <<dbVars, metaVars, clock, syncLocals, trackLocals, mainLocals,
                 lastOp, syncRes, dst0, trk0, schema0, readRows, stamp,
                 commits, cause, trackFailed, sameList, prevSame>>
  /\ UNCHANGED <<synced, procVars2>>

\* ---- direct calls of the two schema functions ---------------------------
CallMirror(T) ==
  /\ pc = "idle"
  /\ \E ddlFails \in BOOLEAN :
       LET r == create_table_if_not_exists(T, ddlFails) IN
         /\ primaryMeta' = r.pm
         /\ dstSchema' = r.ds
         /\ raised' = r.raised
  /\ lastOp' = "mirror"
  /\ tname' = T
  /\ schema0' = dstSchema
  /\ dst0' = dstRows
  /\ pc' = "done"
  /\ UNCHANGED <<srcSchema, srcRows, dstRows, tracking, secondaryMeta, clock,
                 stack, open, syncLocals, now, existing_entry, trkTx,
                 mainLocals, syncRes, firstRes, mainRes, trk0, readRows, stamp,
                 commits, cause, trackFailed, selFailed, sameList, prevSame>>
  /\ UNCHANGED <<synced, procVars2>>

CallEnsureTracking ==
  /\ pc = "idle"
  /\ \E ddlFails \in BOOLEAN :
       LET r == create_sync_tracking_table(ddlFails) IN
         /\ secondaryMeta' = r.sm
         /\ dstSchema' = r.ds
         /\ raised' = r.raised
  /\ lastOp' = "ensure"
  /\ schema0' = dstSchema
  /\ trk0' = tracking
  /\ pc' = "done"
  /\ UNCHANGED <<srcSchema, srcRows, dstRows, tracking, primaryMeta, clock,
                 stack, open, syncLocals, trackLocals, mainLocals, syncRes,
                 firstRes, mainRes, dst0, readRows, stamp, commits, cause,
                 trackFailed, selFailed, sameList, prevSame>>
  /\ UNCHANGED <<synced, procVars2>>

\* ---- __main__, lines 133-155: one bootstrap run, in a new process -------
MainStart(names) ==
  /\ pc = "idle"
  /\ clock + Len(names) <= MaxClock
  /\ pc' = "m_reflect"
  /\ tables_to_sync' = names
  /\ errors' = {}
  /\ primaryMeta' = {}
  /\ secondaryMeta' = {}
  /\ lastOp' = "main"
  /\ syncRes' = "none"
  /\ firstRes' = "none"
  /\ mainRes' = "running"
  /\ raised' = FALSE
  /\ selFailed' = FALSE
  /\ schema0' = dstSchema
  /\ dst0' = dstRows
  /\ trk0' = tracking
  /\ UNCHANGED <<dbVars, clock, stack, open, syncLocals, trackLocals, readRows,
                 stamp, commits, cause, trackFailed, sameList, prevSame>>
  /\ UNCHANGED <<synced, procVars2>>

\* lines 138-139
MReflect ==
  /\ pc = "m_reflect"
  /\ primaryMeta' = srcSchema
  /\ secondaryMeta' = dstSchema
  /\ pc' = "m_tracking"
  /\ UNCHANGED <<dbVars, clock, stack, open, syncLocals, trackLocals,
                 mainLocals, resVars, histVars>>
  /\ UNCHANGED <<synced, procVars2>>

\* line 141
MTracking ==
  /\ pc = "m_tracking"
  /\ \E ddlFails \in BOOLEAN :
       LET r == create_sync_tracking_table(ddlFails) IN
         /\ secondaryMeta' = r.sm
         /\ dstSchema' = r.ds
         /\ raised' = r.raised
         /\ mainRes' = IF r.raised THEN "crashed" ELSE mainRes
         /\ pc' = IF r.raised THEN "done" ELSE "m_first"
  /\ UNCHANGED <<srcSchema, srcRows, dstRows, tracking, primaryMeta, clock,
                 stack, open, syncLocals, trackLocals, mainLocals, lastOp,
                 syncRes, firstRes, histVars>>
  /\ UNCHANGED <<synced, procVars2>>

\* line 143: the call of is_first_run()
MFirst ==
  /\ pc = "m_first"
  /\ pc' = "f_load"
  /\ stack' = <<"m_branch">>
  /\ UNCHANGED <<dbVars, metaVars, clock, open, syncLocals, trackLocals,
                 mainLocals, resVars, histVars>>
  /\ UNCHANGED <<synced, procVars2>>

\* lines 143-147
MBranch ==
  /\ pc = "m_branch"
  /\ IF main_runs_sync(firstRes)
       THEN EnterSync(tables_to_sync, "m_setup")
       ELSE /\ pc' = "m_setup"
            /\ UNCHANGED <<stack, open, table_names, idx, txRows, deleted,
                           syncRes,
                           dst0, trk0, readRows, stamp, commits, cause,
                           trackFailed, sameList, prevSame>>
  /\ UNCHANGED <<dbVars, metaVars, clock, primary_data, ins, trackLocals,
                 mainLocals, lastOp, firstRes, mainRes, raised, schema0,
                 selFailed>>
  /\ UNCHANGED <<synced, procVars2>>

\* lines 149-155
MSetup ==
  /\ pc = "m_setup"
  /\ errors' = {n \in Range(tables_to_sync) : n \notin primaryMeta}
  /\ mainRes' = "done"
  /\ pc' = "done"
  /\ UNCHANGED <<dbVars, metaVars, clock, stack, open, syncLocals, trackLocals,
                 tables_to_sync, lastOp, syncRes, firstRes, raised, histVars>>
  /\ UNCHANGED <<synced, procVars2>>

\* the top-level call is over: its caller goes on, and the call's locals,
\* the session objects among them, and its history are gone
CallerResumes ==
  /\ pc = "done"
  /\ pc' = "idle"
  /\ open' = {}
  /\ sameList' = IF lastOp = "sync" /\ syncRes = "ok" /\ Len(table_names) = 1
                   THEN table_names ELSE << >>
  /\ table_names' = << >>
  /\ tname' = "A"
  /\ tables_to_sync' = << >>
  /\ errors' = {}
  /\ lastOp' = "none"
  /\ syncRes' = "none"
  /\ firstRes' = "none"
  /\ mainRes' = "none"
  /\ raised' = FALSE
  /\ dst0' = NoRows
  /\ trk0' = << >>
  /\ schema0' = {}
  /\ readRows' = NoRows
  /\ stamp' = [t \in Names |-> 0]
  /\ commits' = 0
  /\ cause' = "none"
  /\ trackFailed' = {}
  /\ selFailed' = FALSE
  /\ prevSame' = << >>
  /\ UNCHANGED <<dbVars, metaVars, clock, stack, idx, primary_data, ins,
                 txRows, deleted, now, existing_entry, trkTx>>
  /\ UNCHANGED <<synced, procVars2>>

\* ---- a second process running sync_table_changes([T]), lines 92-118 -----
\* The process has reflected both databases when it started, as __main__
\* does on lines 138-139, and T and sync_tracking were there: lines 99-101
\* and line 65 find every Table in its own MetaData objects.  It shares the
\* two databases and the wall clock with the first process, nothing else.
Call2(T) ==
  /\ pc2 = "idle"
  /\ clock < MaxClock
  /\ T \in srcSchema \cap dstSchema
  /\ TRACK \in dstSchema
  /\ pc2' = "s_read"
  /\ table_name2' = T
  /\ syncRes2' = "running"
  /\ UNCHANGED <<dbVars, metaVars, clock, procVars1, synced, primary_data2,
                 ins2, txRows2, deleted2, now2, existing_entry2, trkTx2>>

\* lines 116-118: the function returns, or the exception of a close leaves
\* it; the model keeps no record of this process's sessions
SyncReturn2 ==
  /\ pc2' = "done"
  /\ primary_data2' = << >>
  /\ ins2' = 1
  /\ txRows2' = << >>
  /\ deleted2' = << >>

\* lines 113-118: the except clause rolls the session back
Abort2 ==
  /\ dstRows' = session_rollback(dstRows, txRows2)
  /\ syncRes2' = "failed"
  /\ SyncReturn2

\* line 103
SRead2 ==
  /\ pc2 = "s_read"
  /\ \E fails \in BOOLEAN :
       IF fails
         THEN Abort2
         ELSE /\ primary_data2' = srcRows[table_name2]
              /\ pc2' = "s_delete"
              /\ UNCHANGED <<dstRows, syncRes2, ins2, txRows2, deleted2>>
  /\ UNCHANGED <<srcSchema, srcRows, dstSchema, tracking, metaVars, clock,
                 procVars1, synced, table_name2, now2, existing_entry2, trkTx2>>

\* line 104
SDelete2 ==
  /\ pc2 = "s_delete"
  /\ \E fails \in BOOLEAN :
       IF fails
         THEN Abort2
         ELSE /\ txRows2' = table_delete(dstRows[table_name2])
              /\ deleted2' = dstRows[table_name2]
              /\ ins2' = 1
              /\ pc2' = "s_insert"
              /\ UNCHANGED <<dstRows, syncRes2, primary_data2>>
  /\ UNCHANGED <<srcSchema, srcRows, dstSchema, tracking, metaVars, clock,
                 procVars1, synced, table_name2, now2, existing_entry2, trkTx2>>

\* lines 106-107, one row
SInsert2 ==
  /\ pc2 = "s_insert"
  /\ ins2 <= Len(primary_data2)
  /\ \E fails \in BOOLEAN :
       IF fails
         THEN Abort2
         ELSE /\ txRows2' = table_insert(txRows2, primary_data2[ins2])
              /\ ins2' = ins2 + 1
              /\ UNCHANGED <<dstRows, syncRes2, pc2, primary_data2, deleted2>>
  /\ UNCHANGED <<srcSchema, srcRows, dstSchema, tracking, metaVars, clock,
                 procVars1, synced, table_name2, now2, existing_entry2, trkTx2>>

\* line 109 and lines 65-68: the call of update_sync_tracking(table_name),
\* up to the reading of the clock
SCallTrack2 ==
  /\ pc2 = "s_insert"
  /\ ins2 > Len(primary_data2)
  /\ clock' = clock + 1
  /\ now2' = clock + 1
  /\ pc2' = "t_select"
  /\ UNCHANGED <<dbVars, metaVars, procVars1, synced, table_name2,
                 primary_data2, ins2, txRows2, deleted2, existing_entry2,
                 trkTx2, syncRes2>>

\* lines 86-90: the except clause swallows the failure, and the batch goes
\* on to line 111
TrackReturn2 ==
  /\ pc2' = "s_commit"
  /\ now2' = 0
  /\ existing_entry2' = FALSE
  /\ trkTx2' = << >>
  /\ UNCHANGED <<dstRows, syncRes2, primary_data2, ins2, txRows2, deleted2>>

\* lines 69-71
TSelect2 ==
  /\ pc2 = "t_select"
  /\ \E fails \in BOOLEAN :
       IF fails
         THEN TrackReturn2
         ELSE /\ existing_entry2' = (RecordsOf(tracking, table_name2) # {})
              /\ pc2' = "t_write"
              /\ UNCHANGED <<now2, trkTx2, dstRows, syncRes2, primary_data2,
                             ins2, txRows2, deleted2>>
  /\ UNCHANGED <<srcSchema, srcRows, dstSchema, tracking, metaVars, clock,
                 procVars1, synced, table_name2>>

\* lines 73-82: the statement runs on the records committed by now
TWrite2 ==
  /\ pc2 = "t_write"
  /\ \E fails \in BOOLEAN :
       IF fails
         THEN TrackReturn2
         ELSE /\ trkTx2' = tracking_upsert(tracking, table_name2, now2,
                                           existing_entry2)
              /\ pc2' = "t_commit"
              /\ UNCHANGED <<now2, existing_entry2, dstRows, syncRes2,
                             primary_data2, ins2, txRows2, deleted2>>
  /\ UNCHANGED <<srcSchema, srcRows, dstSchema, tracking, metaVars, clock,
                 procVars1, synced, table_name2>>

\* lines 84-85, then the finally clause
TCommit2 ==
  /\ pc2 = "t_commit"
  /\ \E fails \in BOOLEAN :
       IF fails
         THEN /\ UNCHANGED tracking
              /\ TrackReturn2
         ELSE /\ tracking' = tracking_commit(tracking, trkTx2, table_name2,
                                             existing_entry2)
              /\ TrackReturn2
  /\ UNCHANGED <<srcSchema, srcRows, dstSchema, metaVars, clock, procVars1,
                 synced, table_name2>>

\* lines 111-112, then the finally clause
SCommit2 ==
  /\ pc2 = "s_commit"
  /\ \E fails \in BOOLEAN :
       IF fails
         THEN /\ Abort2
              /\ UNCHANGED <<synced, deleted>>
         ELSE /\ dstRows' = [dstRows EXCEPT ![table_name2] =
                               table_commit(@, deleted2, txRows2)]
              /\ deleted' = [deleted EXCEPT ![table_name2] =
                               delete_skips(@, deleted2)]
              /\ synced' = TRUE
              /\ syncRes2' = "ok"
              /\ SyncReturn2
  /\ UNCHANGED <<srcSchema, srcRows, dstSchema, tracking, metaVars, clock, pc,
                 stack, open, table_names, idx, primary_data, ins, txRows,
                 trackLocals, mainLocals, resVars, histVars, table_name2, now2,
                 existing_entry2, trkTx2>>

\* the second process's caller goes on
CallerResumes2 ==
  /\ pc2 = "done"
  /\ pc2' = "idle"
  /\ table_name2' = "A"
  /\ syncRes2' = "none"
  /\ UNCHANGED <<dbVars, metaVars, clock, procVars1, synced, primary_data2,
                 ins2, txRows2, deleted2, now2, existing_entry2, trkTx2>>

\* ---- the specification --------------------------------------------------
SyncSteps ==
  \/ SMirror
  \/ SRead
  \/ SDelete
  \/ SInsert
  \/ SCallTrack
  \/ SNext
  \/ SCommit

TrackSteps ==
  \/ TLoad
  \/ TSelect
  \/ TWrite
  \/ TCommit

FirstSteps ==
  \/ FLoad
  \/ FSelect

MainSteps ==
  \/ MReflect
  \/ MTracking
  \/ MFirst
  \/ MBranch
  \/ MSetup

SourceWrites ==
  \/ \E t \in Names, v \in RowVals : SourceInsert(t, v)
  \/ \E t \in Names, i \in 1..MaxRows : SourceDelete(t, i)

Next ==
  \/ SourceWrites
  \/ Restart
  \/ \E names \in NameLists : CallSync(names)
  \/ \E t \in Names : CallRecord(t)
  \/ CallIsFirstRun
  \/ \E t \in Names : CallMirror(t)
  \/ CallEnsureTracking
  \/ \E names \in NameLists : MainStart(names)
  \/ SyncSteps
  \/ TrackSteps
  \/ FirstSteps
  \/ MainSteps
  \/ CallerResumes

Spec == Init /\ [][Next]_vars


\* direct calls of the synchronizer, once the tracking table can be created
NextSync ==
  \/ SourceWrites
  \/ CallEnsureTracking
  \/ \E names \in NameLists : CallSync(names)
  \/ SyncSteps
  \/ TrackSteps
  \/ CallerResumes

SpecSync == Init /\ [][NextSync]_vars

\* bootstrap runs, each in a new process
NextMain ==
  \/ SourceWrites
  \/ \E names \in NameLists : MainStart(names)
  \/ MainSteps
  \/ FirstSteps
  \/ SyncSteps
  \/ TrackSteps
  \/ CallerResumes

SpecMain == Init /\ [][NextMain]_vars

\* direct calls of the tracking and schema functions, in a process that
\* may be new
NextApi ==
  \/ Restart
  \/ \E t \in Names : CallRecord(t)
  \/ CallIsFirstRun
  \/ \E t \in Names : CallMirror(t)
  \/ CallEnsureTracking
  \/ TrackSteps
  \/ FirstSteps
  \/ CallerResumes

SpecApi == Init /\ [][NextApi]_vars

\* bootstrap runs, and calls of create_sync_tracking_table() made by the
\* process between them
NextRuns ==
  \/ \E t \in Names, v \in RowVals : SourceInsert(t, v)
  \/ CallEnsureTracking
  \/ \E names \in NameLists : MainStart(names)
  \/ MainSteps
  \/ FirstSteps
  \/ SyncSteps
  \/ TrackSteps
  \/ CallerResumes

SpecRuns == Init /\ [][NextRuns]_vars

\* two processes, each making calls sync_table_changes(["A"])
SyncSteps2 ==
  \/ SRead2
  \/ SDelete2
  \/ SInsert2
  \/ SCallTrack2
  \/ TSelect2
  \/ TWrite2
  \/ TCommit2
  \/ SCommit2

NextConc ==
  \/ SourceInsert("A", "a")
  \/ CallEnsureTracking
  \/ CallSync(<<"A">>)
  \/ SyncSteps
  \/ TrackSteps
  \/ CallerResumes
  \/ Call2("A")
  \/ SyncSteps2
  \/ CallerResumes2

\* the source holds the one table both processes synchronize
InitConc == Init /\ srcSchema = {"A"}

SpecConc == InitConc /\ [][NextConc]_vars

\* ---- properties ----------------------------------------------------------
\* sync_table_changes has returned, to its direct caller or to __main__
SyncReturned == syncRes \in {"ok", "failed"} /\ pc \in {"done", "m_setup"}

\* a bootstrap run has reached its last line
RunCompleted == pc = "done" /\ lastOp = "main" /\ mainRes = "done"

\* the records of table t, as a set
RecordSet(trk, t) == {trk[i] : i \in RecordsOf(trk, t)}

\* C1: when a batch fails at any step of any table, the committed rows of
\* every data table are, after sync_table_changes returns, exactly the rows
\* the table held when the batch started.
C1_AllOrNothing ==
  (SyncReturned /\ syncRes = "failed") =>
    \A t \in Names : dstRows[t] = dst0[t]

\* the batch [A, B] replaced A's rows in its transaction, then the insert
\* for B failed, and A holds its old rows
C1_Witness ==
  /\ SyncReturned
  /\ syncRes = "failed"
  /\ cause = "insert"
  /\ table_names = <<"A", "B">>
  /\ readRows["B"] # << >>
  /\ dst0["A"] # << >>
  /\ readRows["A"] # dst0["A"]
  /\ dstRows["A"] = dst0["A"]

\* C2: the destination is committed exactly once per call, after the last
\* table, and a batch that fails leaves sync_tracking as it was when the
\* batch started.
C2_TrackingInBatchTransaction ==
  SyncReturned =>
    /\ syncRes = "ok" => commits = 1
    /\ syncRes = "failed" => (commits = 0 /\ tracking = trk0)

\* C3 as claimed: every bootstrap run that completes has invoked the
\* synchronizer, whatever is_first_run() returned.
C3_EveryRunResyncs ==
  RunCompleted => syncRes \in {"ok", "failed"}

\* C3 as amended: a bootstrap run that completes has invoked the
\* synchronizer, on the full requested list, exactly when is_first_run()
\* returned true; when it returned false the destination rows and the
\* tracking records are those the run started with.
C3_SyncOnlyOnFirstRun ==
  RunCompleted =>
    IF firstRes = "true"
      THEN syncRes \in {"ok", "failed"} /\ table_names = tables_to_sync
      ELSE /\ syncRes = "none"
           /\ dstRows = dst0
           /\ tracking = trk0

\* a run that was not a first run has ended and the destination still holds
\* a row that is no longer in the source
C3_Witness ==
  /\ RunCompleted
  /\ firstRes = "false"
  /\ \E t \in Range(tables_to_sync) :
       \E v \in Range(dstRows[t]) : v \notin Range(srcRows[t])

\* C4: after a call that committed, every table whose tracking upsert
\* committed in that call has exactly one sync_tracking record, and its
\* last_synced_at is the timestamp taken for the table in that call.
C4_TrackingUpsert ==
  (SyncReturned /\ syncRes = "ok") =>
    \A t \in Names :
      stamp[t] > 0 =>
        /\ Cardinality(RecordsOf(tracking, t)) = 1
        /\ \A i \in RecordsOf(tracking, t) :
             tracking[i].last_synced_at = stamp[t]

\* a table that already had a record from an earlier sync was synced again
C4_Witness ==
  /\ SyncReturned
  /\ syncRes = "ok"
  /\ \E t \in Names :
       /\ stamp[t] > 0
       /\ \E i \in RecordsOf(trk0, t) : trk0[i].last_synced_at < stamp[t]

\* C5: after a call that committed, the rows of every table of the batch
\* are, as a multiset, the rows read from the source in that call.
C5_DestinationEqualsSource ==
  (SyncReturned /\ syncRes = "ok") =>
    \A t \in Range(table_names) : BagOf(dstRows[t]) = BagOf(readRows[t])

\* a committed call replaced a row the source no longer has by the row the
\* source has now
C5_Witness ==
  /\ SyncReturned
  /\ syncRes = "ok"
  /\ \E t \in Range(table_names) :
       /\ readRows[t] # << >>
       /\ \E v \in Range(dst0[t]) :
            v \notin Range(readRows[t]) /\ v \notin Range(dstRows[t])

\* C6: when sync_table_changes([T]) commits twice in a row and the source
\* was not written in between, T's rows after the second call are its rows
\* after the first.
C6_Idempotent ==
  (pc = "done" /\ lastOp = "sync" /\ syncRes = "ok"
     /\ Len(table_names) = 1 /\ prevSame = table_names) =>
    dstRows[table_names[1]] = dst0[table_names[1]]

\* the second of two such calls has committed, on a table that has rows
C6_Witness ==
  /\ pc = "done"
  /\ lastOp = "sync"
  /\ syncRes = "ok"
  /\ Len(table_names) = 1
  /\ prevSame = table_names
  /\ dstRows[table_names[1]] # << >>

\* C7: is_first_run() never lets an exception escape; it returns true when
\* the tracking table is empty or cannot be read, false otherwise.
C7_FirstRunDetection ==
  (pc = "done" /\ lastOp = "first") =>
    /\ ~raised
    /\ firstRes = IF selFailed \/ tracking = << >> THEN "true" ELSE "false"

\* C8: a first bootstrap run in which nothing fails but the lookup of the
\* names missing from the source reports exactly those names, and leaves
\* every requested table that exists in the source with the source's rows.
C8_MissingNameDoesNotAbort ==
  (RunCompleted /\ firstRes = "true" /\ cause \in {"none", "missing"}) =>
    /\ errors = Range(tables_to_sync) \ srcSchema
    /\ \A t \in Range(tables_to_sync) \cap srcSchema :
         BagOf(dstRows[t]) = BagOf(srcRows[t])

\* C9: a batch in which nothing fails but update_sync_tracking commits its
\* data, leaves every table of the batch with the rows read from the source,
\* and leaves the records of the tables whose upsert failed as they were.
C9_TrackingFailureDoesNotAbort ==
  (SyncReturned /\ trackFailed # {} /\ cause \in {"none", "track"}) =>
    /\ syncRes = "ok"
    /\ \A t \in Range(table_names) : BagOf(dstRows[t]) = BagOf(readRows[t])
    /\ \A t \in trackFailed : RecordSet(tracking, t) = RecordSet(trk0, t)

\* C10: the schema step for table T creates no destination table but T, and
\* changes nothing when the destination already has T.
C10_MirrorCreatesOnlyT ==
  [][pc = "s_mirror" =>
       /\ dstSchema' \subseteq dstSchema \cup {table_names[idx]}
       /\ table_names[idx] \in dstSchema => dstSchema' = dstSchema
       /\ dstRows' = dstRows]_vars

\* C11: a bootstrap run checks the requested names against the source
\* before it ensures the tracking table and before any synchronization, so
\* when the check of lines 149-153 runs neither is_first_run() nor the
\* synchronizer has been called; and a run whose batch failed does not end
\* as a run whose batch committed does.
C11_StateOrder ==
  /\ (lastOp = "main" /\ pc = "m_setup") =>
       (firstRes = "none" /\ syncRes = "none")
  /\ (lastOp = "main" /\ pc = "done" /\ syncRes = "failed") =>
       mainRes # "done"

\* C12: sync_table_changes, is_first_run and update_sync_tracking leave no
\* session of theirs open when they return or fail: none at all is open
\* once the top-level call is over or __main__ has the result, and the
\* tracking session is closed when the batch goes on after line 109.
C12_SessionsReleased ==
  /\ pc \in {"idle", "done", "m_branch", "m_setup"} => open = {}
  /\ pc \in {"s_next", "s_commit", "s_mirror", "s_read", "s_delete",
              "s_insert"} => open = {"primary", "secondary"}

\* C13: create_sync_tracking_table(), called by a run or again by the same
\* process while the destination has sync_tracking, raises nothing and
\* leaves the destination's schema and the tracking records as they are.
C13_EnsureTrackingIdempotent ==
  [][(TRACK \in dstSchema
        /\ (pc = "m_tracking" \/ (pc = "idle" /\ lastOp' = "ensure"))) =>
       /\ ~raised'
       /\ pc' \in {"m_first", "done"}
       /\ mainRes' = mainRes
       /\ dstSchema' = dstSchema
       /\ tracking' = tracking]_vars

\* a later run, against a destination that has sync_tracking with records
\* in it, is past line 141
C13_Witness ==
  /\ lastOp = "main"
  /\ pc = "m_first"
  /\ TRACK \in schema0
  /\ tracking # << >>
  /\ tracking = trk0

\* C14: two overlapping calls sync_table_changes([T]) can both commit and
\* leave two sync_tracking records for T and rows of T that are not the
\* source's (the witness).  A record for T is added next to an existing one
\* only by the commit of a call whose own select had found no record for
\* T, that is, whose select ran before the other call's commit.
C14_DuplicateOnlyFromStaleSelect ==
  [][\A t \in Names :
       (/\ RecordsOf(tracking, t) # {}
        /\ Cardinality(RecordsOf(tracking', t)) >
             Cardinality(RecordsOf(tracking, t))) =>
         \/ /\ pc = "t_commit" /\ pc' # "t_commit"
            /\ tname = t /\ ~existing_entry
         \/ /\ pc2 = "t_commit" /\ pc2' # "t_commit"
            /\ table_name2 = t /\ ~existing_entry2]_vars

\* both calls have committed, without any failure, and T has two tracking
\* records and two copies of the one row the source holds
C14_Witness ==
  /\ pc = "done" /\ lastOp = "sync" /\ syncRes = "ok" /\ trackFailed = {}
  /\ pc2 = "done" /\ syncRes2 = "ok"
  /\ table_names = <<table_name2>>
  /\ Cardinality(RecordsOf(tracking, table_name2)) = 2
  /\ Len(srcRows[table_name2]) = 1
  /\ BagOf(dstRows[table_name2]) # BagOf(srcRows[table_name2])
  /\ readRows[table_name2] = srcRows[table_name2]

\* C15: tracking never runs ahead of data.  While no batch has ever
\* committed its rows, sync_tracking holds no record; and when a batch has
\* been rolled back, no record carries a timestamp taken in that batch.
C15_TrackingNotAheadOfData ==
  /\ ((pc = "idle" \/ SyncReturned) /\ ~synced) => tracking = << >>
  /\ (SyncReturned /\ syncRes = "failed") =>
       \A t \in Names :
         stamp[t] > 0 =>
           \A i \in RecordsOf(tracking, t) :
             tracking[i].last_synced_at # stamp[t]

\* C16: while every batch so far was rolled back, a run does not skip the
\* synchronization and leave a requested table empty in the destination
\* when the source has rows for it: the run after a failed first run finds
\* a first run and synchronizes.
C16_FailedFirstRunIsRetried ==
  (/\ lastOp = "main" /\ pc = "m_setup" /\ firstRes = "false"
   /\ \E t \in Range(tables_to_sync) :
        srcRows[t] # << >> /\ dstRows[t] = << >>) => synced

\* C17: within one call the steps of a table run in the order mirror, read,
\* delete, insert, record, and the tables in list order.  Rows are deleted
\* only after the read of the same table, the tracking step starts only
\* when every row read has been inserted, and the next table starts only
\* after the tracking step of the table before it has returned; between
\* the call's start and its return the pending rows of a table change only
\* in that table's delete and insert steps.
C17_StepOrder ==
  [][/\ (pc' = "s_read" /\ pc # "s_read") => (pc = "s_mirror" /\ idx' = idx)
     /\ (pc' = "s_delete" /\ pc # "s_delete") =>
          /\ pc = "s_read" /\ idx' = idx
          /\ primary_data' = srcRows[table_names[idx]]
     /\ (pc' = "s_insert" /\ pc # "s_insert") =>
          /\ pc = "s_delete" /\ idx' = idx
          /\ primary_data' = primary_data
          /\ txRows'[table_names[idx]] = << >>
     /\ (pc = "s_insert" /\ pc' = "s_insert") =>
          /\ ins <= Len(primary_data) /\ idx' = idx
          /\ txRows'[table_names[idx]] =
               Append(txRows[table_names[idx]], primary_data[ins])
     /\ (pc' = "t_load" /\ pc # "idle") =>
          /\ pc = "s_insert"
          /\ tname' = table_names[idx]
          /\ txRows[table_names[idx]] = primary_data
     /\ (pc' = "s_next") =>
          (pc \in {"t_select", "t_write", "t_commit"} /\ tname = table_names[idx])
     /\ (pc' = "s_mirror" /\ pc \notin {"idle", "m_branch"}) =>
          (pc = "s_next" /\ idx' = idx + 1)
     /\ (pc' = "s_commit") => (pc = "s_next" /\ idx = Len(table_names))
     /\ \A t \in Names :
          txRows'[t] # txRows[t] =>
            \/ pc \in {"idle", "m_branch"}
            \/ pc' \in {"done", "m_setup"}
            \/ pc \in {"s_delete", "s_insert"} /\ t = table_names[idx]]_vars

\* the second table of a batch is being filled, after its rows were read
\* and its old rows deleted, and the first table's tracking is committed
C17_Witness ==
  /\ lastOp = "sync"
  /\ pc = "s_insert"
  /\ idx = 2
  /\ ins > 1
  /\ stamp[table_names[1]] > 0
  /\ deleted[table_names[2]] # << >>
  /\ txRows[table_names[1]] = readRows[table_names[1]]

\* C18: no step of a bootstrap run or of sync_table_changes, whether the
\* operation succeeds or fails, changes the rows or the schema of the
\* source: the source changes only while the program is between calls.
C18_SourceReadOnly ==
  [][(pc # "idle" \/ pc' # "idle") =>
       (srcRows' = srcRows /\ srcSchema' = srcSchema)]_vars

\* a run has copied a table's rows, then failed on the next table, and
\* the source still holds every row that was read
C18_Witness ==
  /\ RunCompleted
  /\ syncRes = "failed"
  /\ cause \in {"delete", "insert", "commit"}
  /\ \E t \in Range(table_names) :
       readRows[t] # << >> /\ srcRows[t] = readRows[t]

====
